---- MODULE Spec2Model ----
(***************************************************************************)
(* PYPOWER: makeYbus (bus and branch admittance matrices) and dSbus_dV     *)
(* (partial derivatives of the power injection w.r.t. voltage).            *)
(*                                                                         *)
(* Numbers.  A complex number is a triple <<a, b, d>> standing for         *)
(* (a + j*b) / d, kept in lowest terms with d > 0, so that equal numbers   *)
(* are equal triples.  The arithmetic is exact; rounding of the floating   *)
(* point unit is not modelled.  The triple <<0, 0, 0>> stands for every    *)
(* non-finite value numpy produces (inf, nan and their complex             *)
(* combinations): numpy divides arrays by zero without raising, and a      *)
(* non-finite operand makes the result of +, -, * and conj non-finite.     *)
(*                                                                         *)
(* Arrays are functions on 0..n-1, as in the source.  A sparse matrix is   *)
(* a record [nr, nc, ent] where ent maps each STORED position <<i, j>> to  *)
(* its value; positions outside DOMAIN ent are structural zeros, which     *)
(* scipy never multiplies or adds.                                         *)
(***************************************************************************)
EXTENDS Integers, Sequences, FiniteSets, TLC

\* ------------------------------------------------------------------ bounds
MaxBus == 2

MaxBranch == 2

MaxNnz == 2

\* -------------------------------------------------------------- arithmetic
Abs(n) == IF n < 0 THEN -n ELSE n

RECURSIVE Gcd(_, _)
Gcd(m, n) == IF n = 0 THEN m ELSE Gcd(n, m % n)

NonFinite == <<0, 0, 0>>

IsFinite(x) == x[3] # 0

Cplx(a, b, d) ==
    IF d = 0 THEN NonFinite
    ELSE LET g == Gcd(Gcd(Abs(a), Abs(b)), Abs(d))
             s == IF d < 0 THEN -1 ELSE 1
         IN  <<(s * a) \div g, (s * b) \div g, (s * d) \div g>>

Re(n) == <<n, 0, 1>>

Zero == Re(0)

One == Re(1)

J == <<0, 1, 1>>

CAdd(x, y) ==
    IF ~IsFinite(x) \/ ~IsFinite(y) THEN NonFinite
    ELSE Cplx(x[1] * y[3] + y[1] * x[3], x[2] * y[3] + y[2] * x[3], x[3] * y[3])

CNeg(x) == IF IsFinite(x) THEN <<-x[1], -x[2], x[3]>> ELSE NonFinite

CSub(x, y) == CAdd(x, CNeg(y))

CMul(x, y) ==
    IF ~IsFinite(x) \/ ~IsFinite(y) THEN NonFinite
    ELSE Cplx(x[1] * y[1] - x[2] * y[2], x[1] * y[2] + x[2] * y[1], x[3] * y[3])

CConj(x) == IF IsFinite(x) THEN <<x[1], -x[2], x[3]>> ELSE NonFinite

\* x / y.  A zero divisor gives inf or nan, never an exception.
CDiv(x, y) ==
    IF ~IsFinite(x) \/ ~IsFinite(y) THEN NonFinite
    ELSE LET m == y[1] * y[1] + y[2] * y[2]
         IN  IF m = 0 THEN NonFinite
             ELSE Cplx((x[1] * y[1] + x[2] * y[2]) * y[3],
                    (x[2] * y[1] - x[1] * y[2]) * y[3],
                    x[3] * m)

\* abs(x) of a number whose modulus is rational (the inputs are chosen so).
CAbs(x) ==
    IF ~IsFinite(x) THEN NonFinite
    ELSE LET m == x[1] * x[1] + x[2] * x[2]
             r == CHOOSE s \in 0..(Abs(x[1]) + Abs(x[2])) : s * s = m
         IN  Cplx(r, 0, x[3])

\* exp(1j * pi / 180 * deg) for a whole number of quarter turns.
ExpDeg(deg) ==
    LET q == (deg % 360) \div 90
    IN  CASE q = 0 -> One
          [] q = 1 -> J
          [] q = 2 -> Re(-1)
          [] q = 3 -> CNeg(J)

RECURSIVE CSum(_, _)
\* Sum of f[k] over k in S; the empty sum is 0.
CSum(f, S) ==
    IF S = {} THEN Zero
    ELSE LET k == CHOOSE e \in S : TRUE
         IN  CAdd(f[k], CSum(f, S \ {k}))

\* ------------------------------------------------------------------ arrays
range(n) == [k \in 0..(n - 1) |-> k]

Len0(a) == Cardinality(DOMAIN a)

ones(n) == [k \in 0..(n - 1) |-> One]

\* numpy r_[a, b]: the two arrays one after the other.
r_(a, b) ==
    [k \in 0..(Len0(a) + Len0(b) - 1) |->
        IF k < Len0(a) THEN a[k] ELSE b[k - Len0(a)]]

\* --------------------------------------------------------- sparse matrices
Mat(nr, nc, ent) == [nr |-> nr, nc |-> nc, ent |-> ent]

NoMat == Mat(0, 0, [p \in {} |-> Zero])

\* The check without its test for negative coordinates.
IndexOutOfRange_UpperOnly(rows, cols, nr, nc) ==
    \E k \in DOMAIN rows : rows[k] >= nr \/ cols[k] >= nc

\* scipy rejects a coordinate outside the given shape with a ValueError.
IndexOutOfRange(rows, cols, nr, nc) ==
    \E k \in DOMAIN rows :
        \/ rows[k] < 0 \/ rows[k] >= nr
        \/ cols[k] < 0 \/ cols[k] >= nc

\* csr_matrix((data, (rows, cols)), (nr, nc)): the values given for the same
\* position are added.
csr_matrix(data, rows, cols, nr, nc) ==
    Mat(nr, nc,
        [p \in {<<rows[k], cols[k]>> : k \in DOMAIN data} |->
            CSum(data, {k \in DOMAIN data : <<rows[k], cols[k]>> = p})])

\* csr_matrix((x, (ib, ib))): the square matrix with x on its diagonal.
diag(x) == csr_matrix(x, range(Len0(x)), range(Len0(x)), Len0(x), Len0(x))

\* M[i, j] read as a dense entry.
Get(M, i, j) == IF <<i, j>> \in DOMAIN M.ent THEN M.ent[<<i, j>>] ELSE Zero

Transpose(M) ==
    Mat(M.nc, M.nr,
        [p \in {<<q[2], q[1]>> : q \in DOMAIN M.ent} |-> M.ent[<<p[2], p[1]>>]])

SpConj(M) == Mat(M.nr, M.nc, [p \in DOMAIN M.ent |-> CConj(M.ent[p])])

SpScale(c, M) == Mat(M.nr, M.nc, [p \in DOMAIN M.ent |-> CMul(c, M.ent[p])])

SpAdd(A, B) ==
    Mat(A.nr, A.nc,
        [p \in DOMAIN A.ent \cup DOMAIN B.ent |->
            IF p \in DOMAIN A.ent /\ p \in DOMAIN B.ent
                THEN CAdd(A.ent[p], B.ent[p])
            ELSE IF p \in DOMAIN A.ent THEN A.ent[p] ELSE B.ent[p]])

SpSub(A, B) ==
    Mat(A.nr, A.nc,
        [p \in DOMAIN A.ent \cup DOMAIN B.ent |->
            IF p \in DOMAIN A.ent /\ p \in DOMAIN B.ent
                THEN CSub(A.ent[p], B.ent[p])
            ELSE IF p \in DOMAIN A.ent THEN A.ent[p] ELSE CNeg(B.ent[p])])

\* Matrix product: only stored entries are multiplied.
SpMul(A, B) ==
    LET mid(i, j) == {k \in 0..(A.nc - 1) :
                         <<i, k>> \in DOMAIN A.ent /\ <<k, j>> \in DOMAIN B.ent}
    IN  Mat(A.nr, B.nc,
            [p \in {q \in (0..(A.nr - 1)) \X (0..(B.nc - 1)) : mid(q[1], q[2]) # {}} |->
                CSum([k \in mid(p[1], p[2]) |->
                         CMul(A.ent[<<p[1], k>>], B.ent[<<k, p[2]>>])],
                     mid(p[1], p[2]))])

\* Matrix times dense vector.
SpMatVec(M, x) ==
    [i \in 0..(M.nr - 1) |->
        LET cols == {j \in 0..(M.nc - 1) : <<i, j>> \in DOMAIN M.ent}
        IN  CSum([j \in cols |-> CMul(M.ent[<<i, j>>], x[j])], cols)]

HasNonFinite(M) == \E p \in DOMAIN M.ent : ~IsFinite(M.ent[p])

\* ------------------------------------------------------------------- state
VARIABLES
    pc,          \* the statement about to run; "done" and "raised" are final
    ret,         \* "none", "returned" or the exception that ended the call
    stderr,      \* the lines written to stderr
    baseMVA, bus, branch,                           \* arguments of makeYbus
    stat, Ys, Bc, tap, Ytt, Yff, Yft, Ytf, Ysh,     \* its vectors
    Cf, Ct, Yf, Yt,                                 \* its matrices
    Ybus,        \* result of makeYbus, argument of dSbus_dV
    V,                                              \* argument of dSbus_dV
    I, diagV, diagIbus, diagVnorm, dS_dVm, dS_dVa   \* locals of dSbus_dV

args == <<baseMVA, bus, branch>>

vecs == <<stat, Ys, Bc, tap, Ytt, Yff, Yft, Ytf, Ysh>>

mats == <<Cf, Ct, Yf, Yt>>

dlocals == <<I, diagV, diagIbus, diagVnorm, dS_dVm, dS_dVa>>

vars == <<pc, ret, stderr, args, vecs, mats, Ybus, V, dlocals>>

NoVec == [k \in {} |-> Zero]

\* ------------------------------------------------------------------ inputs
Arrays(S, n) == [0..(n - 1) -> S]

ArraysUpTo(S, max) == UNION {Arrays(S, n) : n \in 0..max}

Bus(id, gs, bs) == [BUS_I |-> id, GS |-> gs, BS |-> bs]

Branch(f, t, r, x, b, st, tp, sh) ==
    [F_BUS |-> f, T_BUS |-> t, BR_R |-> r, BR_X |-> x, BR_B |-> b,
     BR_STATUS |-> st, TAP |-> tp, SHIFT |-> sh]

Permutations0(n) ==
    {a \in Arrays(0..(n - 1), n) : \A i, j \in 0..(n - 1) : a[i] = a[j] => i = j}

\* Bus numberings: every order of 0..nb-1, and the 1-based numbering.
BusNumberings(nb) == Permutations0(nb) \cup {[k \in 0..(nb - 1) |-> k + 1]}

ShuntValues == {<<0, 0>>, <<2, 4>>}

BaseValues == {2, 100}

\* Bus tables numbered by position, with a shunt that differs from bus to bus.
AlignedBus(nb) == [k \in 0..(nb - 1) |-> Bus(k, 2 * k, 4)]

\* A transformer with tap 2 and a quarter-turn phase shift, in service.
Transformer(f, t) == Branch(f, t, 1, 2, 2, 1, 2, 90)

\* Family 1: bus tables of every numbering and shunt, at most one branch.
BusInputs ==
    {<<b, bs, br>> :
        b \in BaseValues,
        bs \in UNION {{[k \in 0..(nb - 1) |-> Bus(ids[k], sh[k][1], sh[k][2])] :
                          ids \in BusNumberings(nb), sh \in Arrays(ShuntValues, nb)} :
                      nb \in 1..MaxBus},
        br \in ArraysUpTo({Transformer(0, 0)}, 1)}

\* Arrays of length 0..max over S in which at most one entry is outside Core.
\* (Every array over Core, and every array with one entry of S \ Core whose
\* other entries are all the element fill.)
OneOutside(S, Core, fill, max) ==
    ArraysUpTo(Core, max) \cup
    UNION {{[k \in 0..(n - 1) |-> IF k = p THEN odd ELSE fill] :
               p \in 0..(n - 1), odd \in S \ Core} : n \in 1..max}

\* Family 2: every topology on the buses (parallel branches, self-loops,
\* both directions), and a branch whose end is one of -1..n, in any row.
IndexInputs ==
    UNION {{<<2, AlignedBus(n), br>> :
               br \in OneOutside({Transformer(a, b) : a, b \in (-1)..n},
                                 {Transformer(a, b) : a, b \in 0..(n - 1)},
                                 Transformer(0, n - 1), MaxBranch)} :
           n \in 1..MaxBus}

\* Family 3: branches from bus 0 to the last bus with every combination of
\* impedance (zero or 1 + 2j), status, tap and shift.
ElectricalInputs ==
    {<<2, AlignedBus(MaxBus), br>> :
        br \in ArraysUpTo({Branch(0, MaxBus - 1, z[1], z[2], 2, st, tp, sh) :
                              z \in {<<0, 0>>, <<1, 2>>}, st \in {0, 1},
                              tp \in {0, 1, 2}, sh \in {0, 90}},
                          MaxBranch)}

Call(in) ==
    /\ baseMVA = in[1]
    /\ bus = in[2]
    /\ branch = in[3]

Init ==
    /\ \/ \E in \in BusInputs : Call(in)
       \/ \E in \in IndexInputs : Call(in)
       \/ \E in \in ElectricalInputs : Call(in)
    /\ pc = "check"
    /\ ret = "none"
    /\ stderr = <<>>
    /\ stat = NoVec /\ Ys = NoVec /\ Bc = NoVec /\ tap = NoVec
    /\ Ytt = NoVec /\ Yff = NoVec /\ Yft = NoVec /\ Ytf = NoVec /\ Ysh = NoVec
    /\ Cf = NoMat /\ Ct = NoMat /\ Yf = NoMat /\ Yt = NoMat
    /\ Ybus = NoMat
    /\ V = NoVec
    /\ I = NoVec /\ diagV = NoMat /\ diagIbus = NoMat /\ diagVnorm = NoMat
    /\ dS_dVm = NoMat /\ dS_dVa = NoMat

\* ---------------------------------------------------------------- makeYbus
\* bus.shape[0]
nb == Len0(bus)

nl == Len0(branch)

Col(table, field) == [k \in DOMAIN table |-> table[k][field]]

ReCol(table, field) == [k \in DOMAIN table |-> Re(table[k][field])]

\* any(bus[:, BUS_I] != range(nb))
OutOfOrder(b) == \E k \in DOMAIN b : b[k].BUS_I # range(Len0(b))[k]

\* if any(...): stderr.write(...)   -- the call goes on
CheckBusOrder ==
    /\ pc = "check"
    /\ stderr' = IF OutOfOrder(bus)
                    THEN Append(stderr, "buses must appear in order by bus number")
                    ELSE stderr
    /\ pc' = "admittance"
    /\ UNCHANGED <<ret, args, vecs, mats, Ybus, V, dlocals>>

\* stat / (branch[:, BR_R] + 1j * branch[:, BR_X])
SeriesAdmittance(br) ==
    [k \in DOMAIN br |->
        CDiv(Re(br[k].BR_STATUS),
             CAdd(Re(br[k].BR_R), CMul(J, Re(br[k].BR_X))))]

\* stat * branch[:, BR_B]
LineCharging(br) ==
    [k \in DOMAIN br |-> CMul(Re(br[k].BR_STATUS), Re(br[k].BR_B))]

\* nonzero(a): the indices of the non-zero entries
nonzero(a) == {k \in DOMAIN a : a[k] # 0}

\* The tap taken as stored, without the default of 1.
TapRatio_NoDefault(br) ==
    [k \in DOMAIN br |-> CMul(Re(br[k].TAP), ExpDeg(br[k].SHIFT))]

\* tap = ones(nl); tap[i] = branch[i, TAP]; tap = tap * exp(1j*pi/180 * SHIFT)
TapRatio(br) ==
    LET i == nonzero(Col(br, "TAP"))
        t1 == [k \in DOMAIN br |-> IF k \in i THEN Re(br[k].TAP) ELSE ones(Len0(br))[k]]
    IN  [k \in DOMAIN br |-> CMul(t1[k], ExpDeg(br[k].SHIFT))]

ToTo(ys, bc) == [k \in DOMAIN ys |-> CAdd(ys[k], CDiv(CMul(J, bc[k]), Re(2)))]

FromFrom(ytt, tp) == [k \in DOMAIN ytt |-> CDiv(ytt[k], CMul(tp[k], CConj(tp[k])))]

\* Yft without its minus sign.
FromTo_Unsigned(ys, tp) == [k \in DOMAIN ys |-> CDiv(ys[k], CConj(tp[k]))]

FromTo(ys, tp) == [k \in DOMAIN ys |-> CDiv(CNeg(ys[k]), CConj(tp[k]))]

ToFrom(ys, tp) == [k \in DOMAIN ys |-> CDiv(CNeg(ys[k]), tp[k])]

\* (bus[:, GS] + 1j * bus[:, BS]) / baseMVA
ShuntAdmittance(b, base) ==
    [k \in DOMAIN b |->
        CDiv(CAdd(Re(b[k].GS), CMul(J, Re(b[k].BS))), Re(base))]

BranchAdmittance ==
    /\ pc = "admittance"
    /\ stat' = ReCol(branch, "BR_STATUS")
    /\ Ys' = SeriesAdmittance(branch)
    /\ Bc' = LineCharging(branch)
    /\ tap' = TapRatio(branch)
    /\ Ytt' = ToTo(Ys', Bc')
    /\ Yff' = FromFrom(Ytt', tap')
    /\ Yft' = FromTo(Ys', tap')
    /\ Ytf' = ToFrom(Ys', tap')
    /\ Ysh' = ShuntAdmittance(bus, baseMVA)
    /\ pc' = "Cf"
    /\ UNCHANGED <<ret, stderr, args, mats, Ybus, V, dlocals>>

f == Col(branch, "F_BUS")

t == Col(branch, "T_BUS")

Raise(e) ==
    /\ ret' = e
    /\ pc' = "raised"

\* Cf = csr_matrix((ones(nl), (range(nl), f)), (nl, nb))
BuildCf ==
    /\ pc = "Cf"
    /\ \/ /\ IndexOutOfRange(range(nl), f, nl, nb)
          /\ Raise("ValueError")
          /\ UNCHANGED Cf
       \/ /\ ~IndexOutOfRange(range(nl), f, nl, nb)
          /\ Cf' = csr_matrix(ones(nl), range(nl), f, nl, nb)
          /\ pc' = "Ct"
          /\ UNCHANGED ret
    /\ UNCHANGED <<stderr, args, vecs, Ct, Yf, Yt, Ybus, V, dlocals>>

\* Ct = csr_matrix((ones(nl), (range(nl), t)), (nl, nb))
BuildCt ==
    /\ pc = "Ct"
    /\ \/ /\ IndexOutOfRange(range(nl), t, nl, nb)
          /\ Raise("ValueError")
          /\ UNCHANGED Ct
       \/ /\ ~IndexOutOfRange(range(nl), t, nl, nb)
          /\ Ct' = csr_matrix(ones(nl), range(nl), t, nl, nb)
          /\ pc' = "Yf"
          /\ UNCHANGED ret
    /\ UNCHANGED <<stderr, args, vecs, Cf, Yf, Yt, Ybus, V, dlocals>>

\* The branch matrix built by assignment: a second value for a position
\* replaces the first.
BranchMatrix_Overwrite(a, b, from, to, rows, cols) ==
    Mat(rows, cols,
        [p \in {<<k, from[k]>> : k \in 0..(rows - 1)}
                \cup {<<k, to[k]>> : k \in 0..(rows - 1)} |->
            IF p[2] = to[p[1]] THEN b[p[1]] ELSE a[p[1]]])

\* csr_matrix((r_[a, b], (r_[range(nl), range(nl)], r_[f, t])), (nl, nb))
BranchMatrix(a, b, from, to, rows, cols) ==
    csr_matrix(r_(a, b), r_(range(rows), range(rows)), r_(from, to), rows, cols)

\* Yf and Yt.  Their coordinates are those of Cf and Ct, already accepted.
BuildYfYt ==
    /\ pc = "Yf"
    /\ ~IndexOutOfRange(r_(range(nl), range(nl)), r_(f, t), nl, nb)
    /\ Yf' = BranchMatrix(Yff, Yft, f, t, nl, nb)
    /\ Yt' = BranchMatrix(Ytf, Ytt, f, t, nl, nb)
    /\ pc' = "Ybus"
    /\ UNCHANGED <<ret, stderr, args, vecs, Cf, Ct, Ybus, V, dlocals>>

\* Ybus with Cf.T written where Ct.T belongs.
BusMatrix_FromOnly(cf, ct, yf, yt, ysh) ==
    SpAdd(SpAdd(SpMul(Transpose(cf), yf), SpMul(Transpose(cf), yt)),
          csr_matrix(ysh, range(Len0(ysh)), range(Len0(ysh)), Len0(ysh), Len0(ysh)))

\* Cf.T * Yf + Ct.T * Yt + csr_matrix((Ysh, (range(nb), range(nb))), (nb, nb))
BusMatrix(cf, ct, yf, yt, ysh) ==
    SpAdd(SpAdd(SpMul(Transpose(cf), yf), SpMul(Transpose(ct), yt)),
          csr_matrix(ysh, range(Len0(ysh)), range(Len0(ysh)), Len0(ysh), Len0(ysh)))

BuildYbus ==
    /\ pc = "Ybus"
    /\ Ybus' = BusMatrix(Cf, Ct, Yf, Yt, Ysh)
    /\ pc' = "return"
    /\ UNCHANGED <<ret, stderr, args, vecs, mats, V, dlocals>>

\* return Ybus, Yf, Yt
Return ==
    /\ pc = "return"
    /\ ret' = "returned"
    /\ pc' = "done"
    /\ UNCHANGED <<stderr, args, vecs, mats, Ybus, V, dlocals>>

\* ---------------------------------------------------------------- dSbus_dV
VoltageValues == {Zero, J, <<3, 4, 1>>}

AdmittanceValues == {<<1, -2, 1>>, <<0, 3, 1>>}

\* The positions of an n x n matrix, at most MaxNnz of them stored.
Patterns(n) ==
    {Q \in SUBSET ((0..(n - 1)) \X (0..(n - 1))) : Cardinality(Q) <= MaxNnz}

\* Square matrices of every size up to MaxBus with at most MaxNnz stored
\* entries, and voltage vectors of the same length.
InitD ==
    /\ \E n \in 1..MaxBus :
        \E P \in Patterns(n) :
            \E e \in [P -> AdmittanceValues] :
                \E v \in Arrays(VoltageValues, n) :
                    /\ Ybus = Mat(n, n, e)
                    /\ V = v
    /\ pc = "I"
    /\ ret = "none"
    /\ stderr = <<>>
    /\ baseMVA = 0 /\ bus = <<>> /\ branch = <<>>
    /\ stat = NoVec /\ Ys = NoVec /\ Bc = NoVec /\ tap = NoVec
    /\ Ytt = NoVec /\ Yff = NoVec /\ Yft = NoVec /\ Ytf = NoVec /\ Ysh = NoVec
    /\ Cf = NoMat /\ Ct = NoMat /\ Yf = NoMat /\ Yt = NoMat
    /\ I = NoVec /\ diagV = NoMat /\ diagIbus = NoMat /\ diagVnorm = NoMat
    /\ dS_dVm = NoMat /\ dS_dVa = NoMat

\* ib = range(len(V)); I = Ybus * V
Current ==
    /\ pc = "I"
    /\ I' = SpMatVec(Ybus, V)
    /\ pc' = "diag"
    /\ UNCHANGED <<ret, stderr, args, vecs, mats, Ybus, V,
                   diagV, diagIbus, diagVnorm, dS_dVm, dS_dVa>>

\* V / abs(V), element by element
Normalized(v) == [k \in DOMAIN v |-> CDiv(v[k], CAbs(v[k]))]

Diagonals ==
    /\ pc = "diag"
    /\ diagV' = diag(V)
    /\ diagIbus' = diag(I)
    /\ diagVnorm' = diag(Normalized(V))
    /\ pc' = "dS_dVm"
    /\ UNCHANGED <<ret, stderr, args, vecs, mats, Ybus, V, I, dS_dVm, dS_dVa>>

\* diagV * conj(Ybus * diagVnorm) + conj(diagIbus) * diagVnorm
MagnitudePartials(y, dv, di, dn) ==
    SpAdd(SpMul(dv, SpConj(SpMul(y, dn))), SpMul(SpConj(di), dn))

\* dS/dVa without the conjugation.
AnglePartials_NoConj(y, dv, di) ==
    SpMul(SpScale(J, dv), SpSub(di, SpMul(y, dv)))

\* 1j * diagV * conj(diagIbus - Ybus * diagV)
AnglePartials(y, dv, di) ==
    SpMul(SpScale(J, dv), SpConj(SpSub(di, SpMul(y, dv))))

PartialsVm ==
    /\ pc = "dS_dVm"
    /\ dS_dVm' = MagnitudePartials(Ybus, diagV, diagIbus, diagVnorm)
    /\ pc' = "dS_dVa"
    /\ UNCHANGED <<ret, stderr, args, vecs, mats, Ybus, V,
                   I, diagV, diagIbus, diagVnorm, dS_dVa>>

PartialsVa ==
    /\ pc = "dS_dVa"
    /\ dS_dVa' = AnglePartials(Ybus, diagV, diagIbus)
    /\ pc' = "dreturn"
    /\ UNCHANGED <<ret, stderr, args, vecs, mats, Ybus, V,
                   I, diagV, diagIbus, diagVnorm, dS_dVm>>

\* return dS_dVm, dS_dVa
ReturnD ==
    /\ pc = "dreturn"
    /\ ret' = "returned"
    /\ pc' = "done"
    /\ UNCHANGED <<stderr, args, vecs, mats, Ybus, V, dlocals>>

NextD ==
    \/ Current
    \/ Diagonals
    \/ PartialsVm
    \/ PartialsVa
    \/ ReturnD

SpecD == InitD /\ [][NextD]_vars

Next ==
    \/ CheckBusOrder
    \/ BranchAdmittance
    \/ BuildCf
    \/ BuildCt
    \/ BuildYfYt
    \/ BuildYbus
    \/ Return

Spec == Init /\ [][Next]_vars

\* ------------------------------------------------------------- properties
Returned == pc = "done" /\ ret = "returned"

Buses == 0..(nb - 1)

Lines == 0..(nl - 1)

ValidEnds == \A k \in Lines : f[k] \in Buses /\ t[k] \in Buses

ZeroImpedance(k) == branch[k].BR_R = 0 /\ branch[k].BR_X = 0

\* C1: a bus table whose identifiers differ from the positions never makes
\* makeYbus return its matrices.
C1_OutOfOrderNeverReturns == OutOfOrder(bus) => ret # "returned"

\* C2: a voltage vector with a zero entry never makes dSbus_dV return a
\* result.
C2_ZeroVoltageNeverReturns ==
    (\E k \in DOMAIN V : V[k] = Zero) => ret # "returned"

\* C3: an in-service branch with R = 0 and X = 0 never makes makeYbus return
\* its matrices.
C3_ZeroImpedanceNeverReturns ==
    (\E k \in Lines : branch[k].BR_STATUS # 0 /\ ZeroImpedance(k))
        => ret # "returned"

\* C4: when every branch has status 0, whatever its other fields are, the
\* returned Ybus is diag(Ysh) with Ysh = (Gs + jBs) / baseMVA, and every
\* entry of Yf and of Yt is zero.
C4_AllOutOfService ==
    (Returned /\ \A k \in Lines : branch[k].BR_STATUS = 0) =>
        /\ \A i, j \in Buses :
            Get(Ybus, i, j) =
                IF i = j
                    THEN CDiv(Cplx(bus[i].GS, bus[i].BS, 1), Re(baseMVA))
                    ELSE Zero
        /\ \A k \in Lines : \A j \in Buses :
            Get(Yf, k, j) = Zero /\ Get(Yt, k, j) = Zero

\* What branch k adds to entry (i, j) of Ybus.
Contribution(k, i, j) ==
    CAdd(CAdd(IF f[k] = i /\ f[k] = j THEN Yff[k] ELSE Zero,
              IF f[k] = i /\ t[k] = j THEN Yft[k] ELSE Zero),
         CAdd(IF t[k] = i /\ f[k] = j THEN Ytf[k] ELSE Zero,
              IF t[k] = i /\ t[k] = j THEN Ytt[k] ELSE Zero))

Twice(x) == CMul(Re(2), x)

\* C5: every entry (i, j) of the returned Ybus is the sum over all branches
\* of their four terms that fall on (i, j), plus Ysh[i] on the diagonal; two
\* identical branches give twice the contribution of one.
C5_YbusAccumulates ==
    Returned =>
        \A i, j \in Buses :
            LET shunt == IF i = j THEN Ysh[i] ELSE Zero
            IN  /\ Get(Ybus, i, j) =
                      CAdd(CSum([k \in Lines |-> Contribution(k, i, j)], Lines), shunt)
                /\ (nl = 2 /\ branch[0] = branch[1]) =>
                      Get(Ybus, i, j) = CAdd(Twice(Contribution(0, i, j)), shunt)

C5_Witness ==
    /\ Returned
    /\ nb = 2 /\ nl = 2 /\ branch[0] = branch[1]
    /\ f[0] = 0 /\ t[0] = 1
    /\ IsFinite(Yft[0]) /\ Yft[0] # Zero
    /\ Get(Ybus, 0, 1) = Twice(Yft[0])

Nominal(k) == branch[k].TAP = 1 /\ branch[k].SHIFT = 0

\* C6: a branch stored with tap 1 and shift 0 has Yff = Ytt = Ys + j*Bc/2
\* and Yft = Ytf = -Ys; when every branch is such a branch the returned Ybus
\* equals its transpose.
C6_NominalBranch ==
    /\ pc \notin {"check", "admittance"} =>
        \A k \in Lines : Nominal(k) =>
            /\ Ytt[k] = CAdd(Ys[k], CDiv(CMul(J, Bc[k]), Re(2)))
            /\ Yff[k] = Ytt[k]
            /\ Yft[k] = CNeg(Ys[k])
            /\ Ytf[k] = CNeg(Ys[k])
    /\ (Returned /\ \A k \in Lines : Nominal(k)) =>
        \A i, j \in Buses : Get(Ybus, i, j) = Get(Ybus, j, i)

C6_Witness ==
    /\ Returned
    /\ nb = 2 /\ nl = 2
    /\ \A k \in Lines : Nominal(k) /\ branch[k].BR_STATUS = 1 /\ ~ZeroImpedance(k)
    /\ Yft[0] = <<-1, 2, 5>>
    /\ Yff[0] = <<1, 3, 5>>
    /\ Get(Ybus, 0, 1) = <<-2, 4, 5>>
    /\ Get(Ybus, 1, 0) = <<-2, 4, 5>>

\* Ybus read as a dense matrix times V.
DenseCurrent(i) ==
    CSum([j \in DOMAIN V |-> CMul(Get(Ybus, i, j), V[j])], DOMAIN V)

\* C7: dS_dVa[i, j] = j * V[i] * conj(d_ij * I[i] - Ybus[i, j] * V[j]) with
\* I = Ybus * V; an off-diagonal entry is zero where Ybus[i, j] is zero.
C7_AnglePartials ==
    pc \in {"dreturn", "done"} =>
        \A i, j \in DOMAIN V :
            /\ Get(dS_dVa, i, j) =
                  CMul(CMul(J, V[i]),
                       CConj(CSub(IF i = j THEN DenseCurrent(i) ELSE Zero,
                                  CMul(Get(Ybus, i, j), V[j]))))
            /\ (i # j /\ Get(Ybus, i, j) = Zero) => Get(dS_dVa, i, j) = Zero

C7_Witness ==
    /\ Returned
    /\ Len0(V) = 2
    /\ V[0] = <<3, 4, 1>> /\ V[1] = J
    /\ DOMAIN Ybus.ent = {<<0, 0>>, <<0, 1>>}
    /\ Get(dS_dVa, 0, 1) # Zero
    /\ Get(dS_dVa, 0, 0) # Zero
    /\ Get(dS_dVa, 1, 0) = Zero

\* C8: a branch whose from-bus or to-bus is negative or >= nb makes makeYbus
\* raise before Yf, Yt or Ybus is built, and nothing is returned.
C8_BadEndRaises ==
    ~ValidEnds =>
        /\ pc \in {"check", "admittance", "Cf", "Ct", "raised"}
        /\ Yf = NoMat /\ Yt = NoMat /\ Ybus = NoMat
        /\ ret \in {"none", "ValueError"}
        /\ pc = "raised" <=> ret = "ValueError"
        /\ pc = "Ct" => \A k \in Lines : f[k] \in Buses

C8_Witness ==
    /\ pc = "raised" /\ ret = "ValueError"
    /\ nl = 2
    /\ f[0] \in Buses /\ t[0] \in Buses /\ f[1] \in Buses /\ t[1] = -1
    /\ Cf # NoMat /\ Ct = NoMat /\ Yf = NoMat

Magnitude(k) == IF branch[k].TAP = 0 THEN 1 ELSE branch[k].TAP

\* C9: the tap of branch k has magnitude 1 when the stored tap is 0 and the
\* stored tap otherwise, turned by the shift (0 degrees: positive real axis,
\* 90 degrees: positive imaginary axis); none of the three divisors of Yff,
\* Yft and Ytf is zero.
C9_EffectiveTap ==
    pc \notin {"check", "admittance"} =>
        \A k \in Lines :
            /\ CMul(tap[k], CConj(tap[k])) = Re(Magnitude(k) * Magnitude(k))
            /\ branch[k].SHIFT = 0 => tap[k] = <<Magnitude(k), 0, 1>>
            /\ branch[k].SHIFT = 90 => tap[k] = <<0, Magnitude(k), 1>>
            /\ tap[k] # Zero
            /\ CConj(tap[k]) # Zero
            /\ CMul(tap[k], CConj(tap[k])) # Zero

C9_Witness ==
    /\ Returned
    /\ \E k \in Lines :
        /\ branch[k].TAP = 0 /\ branch[k].SHIFT = 90
        /\ branch[k].BR_STATUS = 1 /\ ~ZeroImpedance(k)
        /\ tap[k] = J
        /\ IsFinite(Yft[k]) /\ IsFinite(Ytf[k]) /\ IsFinite(Yff[k])
        /\ Yft[k] # Ytf[k]
    /\ \E k \in Lines : branch[k].TAP = 2 /\ tap[k] = <<0, 2, 1>>

\* C10: for a branch from a bus b to the same bus b, row k of Yf holds the
\* one value Yff[k] + Yft[k], and row k of Yt the one value
\* Ytf[k] + Ytt[k], both in column b.
C10_SelfLoopSums ==
    pc \in {"Ybus", "return", "done"} =>
        \A k \in Lines : f[k] = t[k] =>
            /\ {p \in DOMAIN Yf.ent : p[1] = k} = {<<k, f[k]>>}
            /\ {p \in DOMAIN Yt.ent : p[1] = k} = {<<k, f[k]>>}
            /\ Get(Yf, k, f[k]) = CAdd(Yff[k], Yft[k])
            /\ Get(Yt, k, f[k]) = CAdd(Ytf[k], Ytt[k])

C10_Witness ==
    /\ Returned
    /\ nb = 2 /\ nl = 2
    /\ f[1] = 1 /\ t[1] = 1
    /\ IsFinite(Yff[1]) /\ Yff[1] # Zero /\ Yft[1] # Zero
    /\ Ytf[1] # Zero /\ Ytt[1] # Zero /\ Yft[1] # Ytf[1]
    /\ Get(Yf, 1, 1) = CAdd(Yff[1], Yft[1])
    /\ Get(Yf, 1, 1) # Yff[1] /\ Get(Yf, 1, 1) # Yft[1]
    /\ Get(Yt, 1, 1) # Ytf[1] /\ Get(Yt, 1, 1) # Ytt[1]

====
